---- MODULE Spec2Model ----
(***************************************************************************)
(* Model of lbry_comment_notifier: the paginated stream over the remote    *)
(* API (core/src/lib.rs, stream_paginated), the account -> claim ->        *)
(* comment fan-out (runner/src/main.rs, all_comments), and the change      *)
(* detection and notification of notify_new_comments, run at start-up and  *)
(* by the job scheduler of main.                                           *)
(***************************************************************************)
EXTENDS Integers, Sequences, FiniteSets, TLC

(* ------------------------------ bounds --------------------------------- *)
MaxCpus == 2          \* num_cpus::get() is drawn from 1..MaxCpus
MaxPageSize == 2      \* PAGE_SIZE is drawn from 1..MaxPageSize
MaxRuns == 2          \* pipeline runs in one behaviour
MaxEdits == 1         \* upstream edits of a comment in one behaviour
MaxFetchFail == 1     \* failed page fetches in one behaviour

(* --------------------------- the remote API ---------------------------- *)
\* What the remote endpoint holds.  Accounts and claims do not change;
\* the text and the hidden flag of a comment can be edited between runs.
AccountList == <<"a1", "a2">>

ClaimList(a) ==
    CASE a = "a1" -> <<"k1">>
      [] a = "a2" -> <<"k2", "k3">>
      [] OTHER -> <<>>

CommentList(k) ==
    CASE k = "k1" -> <<"c1", "c2", "c3">>
      [] k = "k2" -> <<"c4">>
      [] OTHER -> <<>>

AccountIds == {"a1", "a2"}
ClaimIds == {"k1", "k2", "k3"}
CommentIds == {"c1", "c2", "c3", "c4"}
Texts == {"t1", "t2"}
Editable == {"c2"}    \* the comments that are edited on the remote side

OwnerClaim(c) == CHOOSE k \in ClaimIds : \E i \in 1..Len(CommentList(k)) : CommentList(k)[i] = c

VARIABLES
    ncpu,       \* num_cpus::get(), fixed for the life of the host
    pageSize,   \* PAGE_SIZE
    upText,     \* remote API: comment id -> current text
    upHidden,   \* remote API: comment id -> is_hidden
    edits,      \* number of upstream edits so far
    relisted,   \* remote API: comment c1 is listed under claim k2 as well
    proc,       \* "running" | "idle" (main's loop between jobs) | "crashed" (panicked)
    runs,       \* number of runs started
    acctS,      \* the account PaginatedStream of all_comments
    claimS,     \* the claim stream the first flatten currently drains
    claimOwner, \* the account zipped onto claimS
    flat1Done,  \* the first flatten has returned None
    buf1,       \* in_progress_queue of the first buffer_unordered: (claim, account)
    commS,      \* the comment stream the second flatten currently drains
    commOwner,  \* the (claim, account) zipped onto commS
    flat2Done,  \* the second flatten has returned None
    buf2,       \* in_progress_queue of the second buffer_unordered: triples
    pc,         \* consumer: "poll" | "notify" | "sending"
    toSend,     \* the CommentEntity handed to for_each_concurrent's closure
    mailerLock, \* TRUE while the Mutex<SmtpTransport> is held
    store,      \* the comments table: id -> CommentEntity or NoEntity
    fails,      \* failed page fetches so far
    \* history of the run, for stating the properties
    hist,       \* stream key -> items the stream emitted, in order
    opened,     \* stream keys whose stream was opened
    closed,     \* stream keys whose stream returned None
    failed,     \* <<stream key, page>> of the fetches that failed
    reqs,       \* <<stream key, page>> of the fetches that were requested
    emitted,    \* the triples all_comments' second flatten emitted
    runText,    \* the remote texts when the run began
    prev,       \* the run before: whether it ended clean, and its runText
    last,       \* what the ChangeDetector did with the most recent triple
    runStore,   \* the store when the run began
    ins, del, ntf,   \* per comment id: inserts, deletes, deliveries in this run
    totIns, totNtf   \* per comment id: inserts and deliveries over all runs

pipeVars == <<acctS, claimS, claimOwner, flat1Done, buf1, commS, commOwner, flat2Done, buf2>>
histVars == <<hist, opened, closed, failed, reqs, emitted>>
runVars == <<runStore, runText, prev>>
cntVars == <<ins, del, ntf, totIns, totNtf>>
envVars == <<ncpu, pageSize, upText, upHidden, edits, relisted>>
vars == <<envVars, proc, runs, pipeVars, pc, toSend, mailerLock, store, fails,
          histVars, last, runVars, cntVars>>

(* ----------------------------- data model ------------------------------ *)
\* Account, Claim, Comment as deserialized from the API (lib.rs 28-64).
Account(a) == [id |-> a, name |-> "n_" \o a, is_default |-> (a = "a1")]

\* DateTime<Utc>: seconds since the epoch and the zone's offset, which is 0.
UtcTimestamp(i) == [secs |-> i, offset |-> 0]

Claim(k) == [id |-> k, name |-> "n_" \o k, timestamp |-> UtcTimestamp(7)]

Comment(c) ==
    [id |-> c, claim_id |-> OwnerClaim(c), comment |-> upText[c],
     commenter_id |-> "ch_" \o c, commenter_name |-> "cn_" \o c,
     commenter_url |-> "cu_" \o c, is_hidden |-> upHidden[c],
     timestamp |-> UtcTimestamp(9)]

\* DateTime::naive_utc: the local date-time of the instant at offset 0.
naive_utc(ts) == ts.secs - ts.offset

NoEntity == [id |-> "none"]

\* Variant: account_id is filled from the account's name.
CommentEntity_accountName(account, claim, comment) ==
    [id |-> comment.id,
     account_id |-> account.name,
     claim_id |-> comment.claim_id,
     claim_name |-> claim.name,
     commenter_id |-> comment.commenter_id,
     commenter_name |-> comment.commenter_name,
     commenter_url |-> comment.commenter_url,
     comment |-> comment.comment,
     is_hidden |-> comment.is_hidden,
     timestamp |-> naive_utc(comment.timestamp)]

\* Variant: the comment and commenter_url columns are exchanged.
CommentEntity_misfiled(account, claim, comment) ==
    [id |-> comment.id,
     account_id |-> account.id,
     claim_id |-> comment.claim_id,
     claim_name |-> claim.name,
     commenter_id |-> comment.commenter_id,
     commenter_name |-> comment.commenter_name,
     commenter_url |-> comment.comment,
     comment |-> comment.commenter_url,
     is_hidden |-> comment.is_hidden,
     timestamp |-> naive_utc(comment.timestamp)]

\* The CommentEntity save_comment builds (lib.rs 330-359).
CommentEntity(account, claim, comment) ==
    [id |-> comment.id,
     account_id |-> account.id,
     claim_id |-> comment.claim_id,
     claim_name |-> claim.name,
     commenter_id |-> comment.commenter_id,
     commenter_name |-> comment.commenter_name,
     commenter_url |-> comment.commenter_url,
     comment |-> comment.comment,
     is_hidden |-> comment.is_hidden,
     timestamp |-> naive_utc(comment.timestamp)]

(* --------------------------- the page fetcher -------------------------- *)
Min(a, b) == IF a < b THEN a ELSE b

\* The envelope's total_pages for a result set of n items.
TotalPages(list) == (Len(list) + pageSize - 1) \div pageSize

\* The envelope's items for a 1-based page.
PageItems(list, page) ==
    SubSeq(list, (page - 1) * pageSize + 1, Min(page * pageSize, Len(list)))

\* comment_list of a claim: the remote endpoint can list a comment under a
\* second claim too, so that one comment id comes in two triples of a run.
CommentsOf(k) ==
    IF relisted /\ k = "k2" THEN CommentList(k) \o <<"c1">> ELSE CommentList(k)

\* The result set a stream's query ranges over: account_list, claim_list of
\* an account, comment_list of a claim.
ResultSet(key) ==
    IF key = "accounts" THEN AccountList
    ELSE IF key \in AccountIds THEN ClaimList(key)
    ELSE CommentsOf(key)

(* -------------------------- stream_paginated --------------------------- *)
\* ph: "none"  no stream
\*     "new"   f(1) built, not yet polled
\*     "first" page 1 requested
\*     "items" initial_stream being drained
\*     "rest"  rest_stream (FuturesUnordered of pages 2..=total_pages) polled
\* out: pages requested and not yet answered; arr: <<page, result>> answered
\* and not yet taken by the stream, result being "Ok" or an ApiError;
\* cur: the page iterator being drained.
NoStream == [ph |-> "none", cur |-> <<>>, tp |-> 0, out |-> {}, arr |-> {}]
NewStream == [ph |-> "new", cur |-> <<>>, tp |-> 0, out |-> {}, arr |-> {}]

\* poll_next would return Ready (an item or the end) or change the stream.
CanStep(s) ==
    \/ s.ph = "new"
    \/ s.ph = "first" /\ s.arr # {}
    \/ s.ph = "items"
    \/ s.ph = "rest" /\ (s.cur # <<>> \/ s.arr # {} \/ s.out = {})

\* Variant: after a failed page 1 the stream still asks for page 2.
FirstPage_probe(key, res) ==
    IF res = "Ok"
    THEN [tp |-> TotalPages(ResultSet(key)), items |-> PageItems(ResultSet(key), 1)]
    ELSE [tp |-> 2, items |-> <<>>]

\* initial_result mapped to (total_pages, items); an Err becomes
\* (0, Vec::default()) (lib.rs 135-145).
FirstPage(key, res) ==
    IF res = "Ok"
    THEN [tp |-> TotalPages(ResultSet(key)), items |-> PageItems(ResultSet(key), 1)]
    ELSE [tp |-> 0, items |-> <<>>]

\* Variant: the range starts at the first page, (1..=total_pages).
RestPages_fromFirst(tp) == 1..tp

\* Variant: the range excludes its end, (2..total_pages).
RestPages_exclusive(tp) == 2..(tp - 1)

\* The pages of rest_stream: (2..=total_pages) (lib.rs 148-149).
RestPages(tp) == 2..tp

\* Variant: an Err ends rest_stream, dropping the pages still pending.
AfterRest_abort(s, key, r) ==
    IF r[2] = "Ok"
    THEN [s EXCEPT !.arr = s.arr \ {r}, !.cur = PageItems(ResultSet(key), r[1])]
    ELSE [s EXCEPT !.arr = {}, !.out = {}, !.cur = <<>>]

\* rest_stream takes the answered page r from the FuturesUnordered: its
\* items on Ok, Vec::default() on Err (lib.rs 150-157).
AfterRest(s, key, r) ==
    [s EXCEPT !.arr = s.arr \ {r},
              !.cur = IF r[2] = "Ok" THEN PageItems(ResultSet(key), r[1]) ELSE <<>>]

\* One step of poll_next on the stream of `key`; r is the answered page the
\* FuturesUnordered yields next.  Result: the stream after the step, the
\* item emitted (<<item>> or <<>>), and whether the stream ended.
StreamStep(s, key, r) ==
    CASE s.ph = "new" ->
           [s |-> [s EXCEPT !.ph = "first", !.out = {1}], emit |-> <<>>, end |-> FALSE]
      [] s.ph = "first" ->
           [s |-> [ph |-> "items",
                   cur |-> FirstPage(key, r[2]).items,
                   tp |-> FirstPage(key, r[2]).tp,
                   out |-> {}, arr |-> {}],
            emit |-> <<>>, end |-> FALSE]
      [] s.ph = "items" /\ s.cur # <<>> ->
           [s |-> [s EXCEPT !.cur = Tail(s.cur)], emit |-> <<Head(s.cur)>>, end |-> FALSE]
      [] s.ph = "items" /\ s.cur = <<>> ->
           [s |-> [s EXCEPT !.ph = "rest", !.out = RestPages(s.tp)],
            emit |-> <<>>, end |-> FALSE]
      [] s.ph = "rest" /\ s.cur # <<>> ->
           [s |-> [s EXCEPT !.cur = Tail(s.cur)], emit |-> <<Head(s.cur)>>, end |-> FALSE]
      [] s.ph = "rest" /\ s.cur = <<>> /\ s.arr # {} ->
           [s |-> AfterRest(s, key, r), emit |-> <<>>, end |-> FALSE]
      [] OTHER ->
           [s |-> NoStream, emit |-> <<>>, end |-> TRUE]

\* The answered pages a step can take.
Picks(s) == IF s.arr = {} THEN {<<0, "Ok">>} ELSE s.arr


(* ------------------------------ all_comments --------------------------- *)
\* A page fetch ends Ok or Err.  The two ApiError kinds (lib.rs 100-104) are
\* one outcome here: stream_paginated discards the error value
\* (unwrap_or_else(|_| ..)), so NetworkError and InvalidResponse take the
\* same path.
FetchResults == {"Ok", "Err"}

\* Variant: the stream is polled while a record waits to be sent.
Polling_pending == proc = "running" /\ pc \in {"poll", "notify"}

\* for_each_concurrent polls the stream of records, and with it the whole
\* pipeline, when the send of the record before has returned (main.rs 99-110).
Polling == proc = "running" /\ pc = "poll"

\* The first buffer_unordered's fill loop can pull from the first flatten.
Fill1Can ==
    /\ Cardinality(buf1) < ncpu
    /\ ~flat1Done
    /\ IF claimS.ph # "none" THEN CanStep(claimS) ELSE CanStep(acctS)

\* The second flatten would not return Pending.
Flat2Can ==
    IF commS.ph # "none" THEN CanStep(commS)
    ELSE Fill1Can \/ buf1 # {} \/ flat1Done

\* The second buffer_unordered's fill loop can pull from the second flatten.
Fill2Can ==
    /\ Cardinality(buf2) < ncpu
    /\ ~flat2Done
    /\ Flat2Can

\* Variant: the flatten polls its outer stream while it holds an inner one.
FlattenIdle_eager(s) == TRUE

\* Flatten polls its outer stream only when it holds no inner stream: the
\* inner stream is drained to its end first (main.rs 39, 48).
FlattenIdle(s) == s.ph = "none"

\* The second fill loop has reached the first buffer_unordered.
AtBuf1 == Polling /\ Cardinality(buf2) < ncpu /\ ~flat2Done /\ FlattenIdle(commS)

Emit(key, e) == [hist EXCEPT ![key] = @ \o e]

\* The requests a step of the stream of `key` has issued.
Issued(key, before, after) == reqs \cup {<<key, page>> : page \in after.out \ before.out}

\* The remote endpoint answers an outstanding request of a stream.
Answer(s, key, page, res) ==
    /\ page \in s.out
    /\ res # "Ok" => fails < MaxFetchFail
    /\ fails' = IF res = "Ok" THEN fails ELSE fails + 1
    /\ failed' = IF res = "Ok" THEN failed ELSE failed \cup {<<key, page>>}

AnswerAccounts ==
    /\ proc = "running"
    /\ \E page \in acctS.out, res \in FetchResults :
         /\ Answer(acctS, "accounts", page, res)
         /\ acctS' = [acctS EXCEPT !.out = @ \ {page}, !.arr = @ \cup {<<page, res>>}]
    /\ UNCHANGED <<envVars, proc, runs, claimS, claimOwner, flat1Done, buf1, commS,
                   commOwner, flat2Done, buf2, pc, toSend, mailerLock, store,
                   hist, opened, closed, reqs, emitted, last, runVars, cntVars>>

AnswerClaims ==
    /\ proc = "running"
    /\ \E page \in claimS.out, res \in FetchResults :
         /\ Answer(claimS, claimOwner, page, res)
         /\ claimS' = [claimS EXCEPT !.out = @ \ {page}, !.arr = @ \cup {<<page, res>>}]
    /\ UNCHANGED <<envVars, proc, runs, acctS, claimOwner, flat1Done, buf1, commS,
                   commOwner, flat2Done, buf2, pc, toSend, mailerLock, store,
                   hist, opened, closed, reqs, emitted, last, runVars, cntVars>>

AnswerComments ==
    /\ proc = "running"
    /\ \E page \in commS.out, res \in FetchResults :
         /\ Answer(commS, commOwner[1], page, res)
         /\ commS' = [commS EXCEPT !.out = @ \ {page}, !.arr = @ \cup {<<page, res>>}]
    /\ UNCHANGED <<envVars, proc, runs, acctS, claimS, claimOwner, flat1Done, buf1,
                   commOwner, flat2Done, buf2, pc, toSend, mailerLock, store,
                   hist, opened, closed, reqs, emitted, last, runVars, cntVars>>

\* The first flatten polls the account stream: an account opens its claim
\* stream, the end of the accounts ends the flatten (main.rs 32-39).
AcctStep ==
    /\ AtBuf1 /\ Cardinality(buf1) < ncpu /\ ~flat1Done
    /\ FlattenIdle(claimS) /\ CanStep(acctS)
    /\ \E r \in Picks(acctS) :
         LET st == StreamStep(acctS, "accounts", r) IN
         /\ acctS' = st.s
         /\ hist' = Emit("accounts", st.emit)
         /\ reqs' = Issued("accounts", acctS, st.s)
         /\ flat1Done' = st.end
         /\ closed' = IF st.end THEN closed \cup {"accounts"} ELSE closed
         /\ IF st.emit # <<>>
            THEN /\ claimS' = NewStream
                 /\ claimOwner' = st.emit[1]
                 /\ opened' = opened \cup {st.emit[1]}
            ELSE UNCHANGED <<claimS, claimOwner, opened>>
    /\ UNCHANGED <<envVars, proc, runs, buf1, commS, commOwner, flat2Done, buf2,
                   pc, toSend, mailerLock, store, fails, failed, emitted, last, runVars,
                   cntVars>>

\* The first flatten polls the claim stream it drains; a claim goes, zipped
\* with its account, into the first buffer_unordered (main.rs 35-41).
ClaimStep ==
    /\ AtBuf1 /\ Cardinality(buf1) < ncpu /\ ~flat1Done
    /\ claimS.ph # "none" /\ CanStep(claimS)
    /\ \E r \in Picks(claimS) :
         LET st == StreamStep(claimS, claimOwner, r) IN
         /\ claimS' = st.s
         /\ hist' = Emit(claimOwner, st.emit)
         /\ reqs' = Issued(claimOwner, claimS, st.s)
         /\ closed' = IF st.end THEN closed \cup {claimOwner} ELSE closed
         /\ buf1' = IF st.emit # <<>> THEN buf1 \cup {<<st.emit[1], claimOwner>>} ELSE buf1
    /\ UNCHANGED <<envVars, proc, runs, acctS, claimOwner, flat1Done, commS, commOwner,
                   flat2Done, buf2, pc, toSend, mailerLock, store, fails, opened,
                   failed, emitted, last, runVars, cntVars>>

\* The first buffer_unordered yields a (claim, account); the second map
\* opens the claim's comment stream (main.rs 41-48).
OpenComments ==
    /\ AtBuf1 /\ ~Fill1Can
    /\ \E p \in buf1 :
         /\ buf1' = buf1 \ {p}
         /\ commS' = NewStream
         /\ commOwner' = p
         /\ opened' = opened \cup {p[1]}
    /\ UNCHANGED <<envVars, proc, runs, acctS, claimS, claimOwner, flat1Done, flat2Done,
                   buf2, pc, toSend, mailerLock, store, fails, hist, closed, failed,
                   reqs, emitted, last, runVars, cntVars>>

\* Variant: the second flatten ends as soon as the first flatten is done,
\* whatever the first buffer_unordered still holds.
EndFlatten_early ==
    /\ AtBuf1 /\ flat1Done
    /\ flat2Done' = TRUE
    /\ UNCHANGED <<envVars, proc, runs, acctS, claimS, claimOwner, flat1Done, buf1,
                   commS, commOwner, buf2, pc, toSend, mailerLock, store, fails,
                   histVars, last, runVars, cntVars>>

\* The first buffer_unordered is empty and its stream is done: the second
\* flatten ends.
EndFlatten ==
    /\ AtBuf1 /\ ~Fill1Can
    /\ buf1 = {} /\ flat1Done
    /\ flat2Done' = TRUE
    /\ UNCHANGED <<envVars, proc, runs, acctS, claimS, claimOwner, flat1Done, buf1,
                   commS, commOwner, buf2, pc, toSend, mailerLock, store, fails,
                   histVars, last, runVars, cntVars>>

\* Variant: every comment is paired with the first account.
Triple_firstAccount(owner, comment) == <<AccountList[1], owner[1], comment>>

\* The (account, claim, comment) made of a comment and the (claim, account)
\* zipped onto its stream (main.rs 43-50).
Triple(owner, comment) == <<owner[2], owner[1], comment>>

\* The second flatten polls the comment stream it drains; a comment goes,
\* as a triple, into the second buffer_unordered (main.rs 43-50).
CommStep ==
    /\ Polling /\ Cardinality(buf2) < ncpu /\ ~flat2Done
    /\ commS.ph # "none" /\ CanStep(commS)
    /\ \E r \in Picks(commS) :
         LET st == StreamStep(commS, commOwner[1], r) IN
         /\ commS' = st.s
         /\ hist' = Emit(commOwner[1], st.emit)
         /\ reqs' = Issued(commOwner[1], commS, st.s)
         /\ closed' = IF st.end THEN closed \cup {commOwner[1]} ELSE closed
         /\ buf2' = IF st.emit # <<>>
                    THEN buf2 \cup {Triple(commOwner, st.emit[1])}
                    ELSE buf2
         /\ emitted' = IF st.emit # <<>>
                       THEN emitted \cup {Triple(commOwner, st.emit[1])}
                       ELSE emitted
    /\ UNCHANGED <<envVars, proc, runs, acctS, claimS, claimOwner, flat1Done, buf1,
                   commOwner, flat2Done, pc, toSend, mailerLock, store, fails, opened,
                   failed, last, runVars, cntVars>>

(* ------------------------------- Storage ------------------------------- *)
\* Variant: the lookup answers from the table as it was when the run began,
\* as if the lookups of the run were made before any of its writes.
get_comment_by_id_snapshot(st, comment_id) == runStore[comment_id]

\* c.find(comment_id).first(&conn).ok()
get_comment_by_id(st, comment_id) == st[comment_id]

\* Variant: the delete has no filter on the id.
delete_comment_by_id_all(st, comment_id) == [c \in CommentIds |-> NoEntity]

\* diesel::delete(c.filter(id.eq(comment_id)))
delete_comment_by_id(st, comment_id) == [st EXCEPT ![comment_id] = NoEntity]

\* diesel::insert_into(comments::table).values(&new_comment)
save_comment(st, account, claim, comment) ==
    [st EXCEPT ![comment.id] = CommentEntity(account, claim, comment)]

\* The primary key of the comments table (schema.rs 2): an insert of an id
\* the table holds is an error.
KeyConflict(st, comment_id) == st[comment_id] # NoEntity

(* -------------------------- notify_new_comments ------------------------ *)
\* Variant: a stored comment is never replaced.
Classification_noUpdate(existing, comment) ==
    IF existing = NoEntity THEN "New" ELSE "Unchanged"

\* Variant: the stored and the fetched comment are compared by is_hidden.
Classification_hiddenOnly(existing, comment) ==
    IF existing = NoEntity THEN "New"
    ELSE IF existing.is_hidden # comment.is_hidden THEN "Updated"
    ELSE "Unchanged"

\* Variant: a change of is_hidden counts as an update too.
Classification_anyField(existing, comment) ==
    IF existing = NoEntity THEN "New"
    ELSE IF existing.comment # comment.comment \/ existing.is_hidden # comment.is_hidden
         THEN "Updated"
    ELSE "Unchanged"

\* The branch the filter_map closure takes (main.rs 73-97).
Classification(existing, comment) ==
    IF existing = NoEntity THEN "New"
    ELSE IF existing.comment # comment.comment THEN "Updated"
    ELSE "Unchanged"

NoLast == [id |-> "none", class |-> "none", ops |-> <<>>, fwd |-> FALSE, fault |-> "none",
           pre |-> NoEntity, triple |-> <<>>]

Zero == [c \in CommentIds |-> 0]
Bump(f, c) == [f EXCEPT ![c] = @ + 1]

\* The state a panic or the end of block_on leaves: the runtime and the
\* streams are dropped.
Dropped ==
    /\ acctS' = NoStream /\ claimS' = NoStream /\ commS' = NoStream
    /\ claimOwner' = "none" /\ commOwner' = <<"none", "none">>
    /\ flat1Done' = FALSE /\ flat2Done' = FALSE
    /\ buf1' = {} /\ buf2' = {}
    /\ pc' = "poll" /\ toSend' = NoEntity /\ mailerLock' = FALSE

\* Variant: the Err is dropped and the pipeline goes on as it was.
Panic_retry == UNCHANGED <<proc, pipeVars, pc, toSend, mailerLock>>

\* An expect() on an Err panics; the panic unwinds block_on,
\* notify_new_comments and main.
Panic == proc' = "crashed" /\ Dropped

\* The second buffer_unordered yields a triple and the filter_map closure
\* runs on it (main.rs 70-98).  fault: the storage call that returns Err.
ChangeDetect ==
    /\ Polling /\ ~Fill2Can
    /\ \E t \in buf2, fault \in {"none", "delete", "insert"} :
         LET account == Account(t[1])
             claim == Claim(t[2])
             comment == Comment(t[3])
             id == comment.id
             existing == get_comment_by_id(store, id)
             class == Classification(existing, comment)
             deleted == delete_comment_by_id(store, id)
             base == IF class = "Updated" /\ fault # "delete" THEN deleted ELSE store
             saveErr == fault = "insert" \/ KeyConflict(base, id)
             saved == save_comment(base, account, claim, comment)
             ok == class = "Unchanged" \/ (fault # "delete" /\ ~saveErr)
             ops == CASE class = "Unchanged" -> <<>>
                      [] class = "New" -> IF saveErr THEN <<>> ELSE <<"insert">>
                      [] OTHER -> IF fault = "delete" THEN <<>>
                                  ELSE IF saveErr THEN <<"delete">>
                                  ELSE <<"delete", "insert">>
         IN
         /\ fault = "delete" => class = "Updated"
         /\ fault = "insert" => class # "Unchanged"
         /\ store' = IF class = "Unchanged" THEN store
                     ELSE IF ok THEN saved ELSE base
         /\ last' = [id |-> id, class |-> class, ops |-> ops,
                     fwd |-> (ok /\ class # "Unchanged"),
                     fault |-> IF ok THEN "none" ELSE IF fault = "delete" THEN "delete" ELSE "insert",
                     pre |-> existing, triple |-> t]
         /\ ins' = IF ok /\ class # "Unchanged" THEN Bump(ins, id) ELSE ins
         /\ totIns' = IF ok /\ class # "Unchanged" THEN Bump(totIns, id) ELSE totIns
         /\ del' = IF class = "Updated" /\ fault # "delete" THEN Bump(del, id) ELSE del
         /\ IF ok
            THEN /\ buf2' = buf2 \ {t}
                 /\ pc' = IF class = "Unchanged" THEN "poll" ELSE "notify"
                 /\ toSend' = IF class = "Unchanged" THEN NoEntity ELSE saved[id]
                 /\ UNCHANGED <<proc, acctS, claimS, claimOwner, flat1Done, buf1, commS,
                                commOwner, flat2Done, mailerLock>>
            ELSE Panic
    /\ UNCHANGED <<envVars, runs, fails, histVars, runVars, ntf, totNtf>>

\* Variant: the closure sends without taking the mailer lock.
SendLock_unlocked ==
    /\ proc = "running" /\ pc = "notify"
    /\ mailerLock' = FALSE
    /\ pc' = "sending"
    /\ UNCHANGED <<envVars, proc, runs, pipeVars, toSend, store, fails, histVars,
                   last, runVars, cntVars>>

\* for_each_concurrent's closure takes the mailer lock (main.rs 99-106).
SendLock ==
    /\ proc = "running" /\ pc = "notify"
    /\ ~mailerLock
    /\ mailerLock' = TRUE
    /\ pc' = "sending"
    /\ UNCHANGED <<envVars, proc, runs, pipeVars, toSend, store, fails, histVars,
                   last, runVars, cntVars>>

\* send() returns: Ok delivers the notification and the guard is dropped,
\* Err panics (main.rs 107-108).
SendDone ==
    /\ proc = "running" /\ pc = "sending"
    /\ \E ok \in BOOLEAN :
         IF ok
         THEN /\ ntf' = Bump(ntf, toSend.id)
              /\ totNtf' = Bump(totNtf, toSend.id)
              /\ mailerLock' = FALSE
              /\ pc' = "poll"
              /\ toSend' = NoEntity
              /\ last' = last
              /\ UNCHANGED <<proc, pipeVars>>
         ELSE /\ Panic
              /\ last' = [last EXCEPT !.fault = "send"]
              /\ UNCHANGED <<ntf, totNtf>>
    /\ UNCHANGED <<envVars, runs, store, fails, histVars, runVars, ins, del, totIns>>

\* The stream of triples has ended and no send is pending: block_on
\* returns (main.rs 110-113).
RunDone ==
    /\ Polling /\ ~Fill2Can
    /\ buf2 = {} /\ flat2Done
    /\ proc' = "idle"
    /\ Dropped
    /\ UNCHANGED <<envVars, runs, store, fails, histVars, last, runVars, cntVars>>

(* ---------------------------------- main ------------------------------- *)
\* notify_new_comments builds the runtime and all_comments (main.rs 60-69).
BeginRun ==
    /\ runs < MaxRuns
    /\ runs' = runs + 1
    /\ proc' = "running"
    /\ acctS' = NewStream /\ claimS' = NoStream /\ commS' = NoStream
    /\ claimOwner' = "none" /\ commOwner' = <<"none", "none">>
    /\ flat1Done' = FALSE /\ flat2Done' = FALSE
    /\ buf1' = {} /\ buf2' = {}
    /\ pc' = "poll" /\ toSend' = NoEntity /\ mailerLock' = FALSE
    /\ fails' = fails
    /\ hist' = [k \in {"accounts"} \cup AccountIds \cup ClaimIds |-> <<>>]
    /\ opened' = {"accounts"} /\ closed' = {} /\ failed' = {} /\ reqs' = {}
    /\ emitted' = {}
    /\ last' = NoLast
    /\ runStore' = store
    /\ runText' = upText
    /\ prev' = [clean |-> (proc = "idle" /\ failed = {}), text |-> runText]
    /\ ins' = Zero /\ del' = Zero /\ ntf' = Zero
    /\ UNCHANGED <<envVars, store, totIns, totNtf>>

\* The run main makes before it adds the job (main.rs 186-192).
StartupRun == proc = "start" /\ BeginRun

\* Variant: the scheduler starts the job while a run is in progress.
ScheduledRun_overlap == proc \in {"idle", "running"} /\ BeginRun

\* sched.tick() runs the watcher job (main.rs 169-184, 196-200).
ScheduledRun == proc = "idle" /\ BeginRun

\* The program is started again after a panic ended it; only the database
\* file is carried over (main.rs 149).
Restart ==
    /\ proc = "crashed"
    /\ runs < MaxRuns
    /\ proc' = "start"
    /\ UNCHANGED <<envVars, runs, pipeVars, pc, toSend, mailerLock, store, fails,
                   histVars, last, runVars, cntVars>>

\* Between two runs a comment is edited on the remote side.
UpstreamEdit ==
    /\ proc = "idle"
    /\ runs < MaxRuns
    /\ edits < MaxEdits
    /\ edits' = edits + 1
    /\ \E c \in Editable :
         \/ /\ \E t \in Texts \ {upText[c]} : upText' = [upText EXCEPT ![c] = t]
            /\ UNCHANGED upHidden
         \/ /\ upHidden' = [upHidden EXCEPT ![c] = ~@]
            /\ UNCHANGED upText
    /\ UNCHANGED <<ncpu, pageSize, relisted, proc, runs, pipeVars, pc, toSend, mailerLock, store,
                   fails, histVars, last, runVars, cntVars>>

\* The state after construction, whatever the remote endpoint lists.
Constructed ==
    /\ ncpu \in 1..MaxCpus
    /\ pageSize \in 1..MaxPageSize
    /\ upText = [c \in CommentIds |-> "t1"]
    /\ upHidden = [c \in CommentIds |-> FALSE]
    /\ edits = 0
    /\ proc = "start"
    /\ runs = 0
    /\ acctS = NoStream /\ claimS = NoStream /\ commS = NoStream
    /\ claimOwner = "none" /\ commOwner = <<"none", "none">>
    /\ flat1Done = FALSE /\ flat2Done = FALSE
    /\ buf1 = {} /\ buf2 = {}
    /\ pc = "poll" /\ toSend = NoEntity /\ mailerLock = FALSE
    /\ store = [c \in CommentIds |-> NoEntity]
    /\ fails = 0
    /\ hist = [k \in {"accounts"} \cup AccountIds \cup ClaimIds |-> <<>>]
    /\ opened = {} /\ closed = {} /\ failed = {} /\ reqs = {}
    /\ emitted = {}
    /\ last = NoLast
    /\ runStore = [c \in CommentIds |-> NoEntity]
    /\ runText = [c \in CommentIds |-> "t1"]
    /\ prev = [clean |-> FALSE, text |-> [c \in CommentIds |-> "t1"]]
    /\ ins = Zero /\ del = Zero /\ ntf = Zero
    /\ totIns = Zero /\ totNtf = Zero

Init == relisted = FALSE /\ Constructed

\* The program started against a remote endpoint that lists c1 twice.
InitRelisted == relisted = TRUE /\ Constructed

Next ==
    \/ StartupRun
    \/ ScheduledRun
    \/ Restart
    \/ UpstreamEdit
    \/ AnswerAccounts
    \/ AnswerClaims
    \/ AnswerComments
    \/ AcctStep
    \/ ClaimStep
    \/ OpenComments
    \/ EndFlatten
    \/ CommStep
    \/ ChangeDetect
    \/ SendLock
    \/ SendDone
    \/ RunDone

Spec == Init /\ [][Next]_vars

\* The run main makes at start-up, alone: the program from its start to the
\* end of the first notify_new_comments (main.rs 116-192).
NextRun ==
    \/ StartupRun
    \/ AnswerAccounts
    \/ AnswerClaims
    \/ AnswerComments
    \/ AcctStep
    \/ ClaimStep
    \/ OpenComments
    \/ EndFlatten
    \/ CommStep
    \/ ChangeDetect
    \/ SendLock
    \/ SendDone
    \/ RunDone

SpecRun == Init /\ [][NextRun]_vars

\* The start-up run under its scheduling.  block_on polls the pipeline
\* whenever a part of it can make progress and returns only when it is done
\* (main.rs 66-113); the storage calls and send() are blocking calls that
\* return (main.rs 73-108); every issued page fetch is answered, with Ok or
\* with an error (lib.rs 172-189).
FairRun ==
    /\ WF_vars(StartupRun)
    /\ WF_vars(AnswerAccounts) /\ WF_vars(AnswerClaims) /\ WF_vars(AnswerComments)
    /\ WF_vars(AcctStep) /\ WF_vars(ClaimStep) /\ WF_vars(OpenComments)
    /\ WF_vars(EndFlatten) /\ WF_vars(CommStep)
    /\ WF_vars(ChangeDetect) /\ WF_vars(SendLock) /\ WF_vars(SendDone)
    /\ WF_vars(RunDone)

SpecFair == Init /\ [][NextRun]_vars /\ FairRun

\* The start-up run over a listing that holds one comment id twice.
SpecRelisted == InitRelisted /\ [][NextRun]_vars

(* ------------------------------ properties ----------------------------- *)
\* The items the stream of `key` has emitted or its result set holds.
ItemsOf(key) ==
    {hist[key][i] : i \in 1..Len(hist[key])}
        \cup {ResultSet(key)[i] : i \in 1..Len(ResultSet(key))}
StreamKeys == {"accounts"} \cup AccountIds \cup ClaimIds

\* How often x occurs in a sequence.
Count(seq, x) == Cardinality({i \in 1..Len(seq) : seq[i] = x})

\* How often x occurs in the given pages of the result set of `key`.
PageCount(key, pages, x) ==
    Cardinality({pi \in pages \X (1..pageSize) :
                   /\ pi[2] <= Len(PageItems(ResultSet(key), pi[1]))
                   /\ PageItems(ResultSet(key), pi[1])[pi[2]] = x})

AllPages(key) == 1..TotalPages(ResultSet(key))
FailedPages(key) == {page \in 1..(Len(ResultSet(key)) + 1) : <<key, page>> \in failed}

\* The pages of `key` whose fetch can have succeeded in this run.
SeenPages(key) ==
    IF 1 \in FailedPages(key) THEN {} ELSE AllPages(key) \ FailedPages(key)

\* The stream of `key`, while all_comments holds it.
StreamOf(key) ==
    IF key = "accounts" THEN acctS
    ELSE IF key = claimOwner THEN claimS
    ELSE IF key = commOwner[1] THEN commS
    ELSE NoStream

\* The step is the ChangeDetector handling a triple.
Detected == last'.triple # <<>> /\ last'.triple # last.triple

\* The record the ChangeDetector is to persist for a triple.
Expected(t) ==
    [id |-> t[3],
     account_id |-> t[1],
     claim_id |-> OwnerClaim(t[3]),
     claim_name |-> Claim(t[2]).name,
     commenter_id |-> Comment(t[3]).commenter_id,
     commenter_name |-> Comment(t[3]).commenter_name,
     commenter_url |-> Comment(t[3]).commenter_url,
     comment |-> upText[t[3]],
     is_hidden |-> upHidden[t[3]],
     timestamp |-> Comment(t[3]).timestamp.secs]

\* A panic has one of the three fatal causes, never a page fetch.
FatalCause == proc = "crashed" => last.fault \in {"insert", "delete", "send"}

Elems(seq) == {seq[i] : i \in 1..Len(seq)}

\* When the run has completed, a stream was opened for every account and
\* every claim that was emitted, and every opened stream has ended.
BranchesDone ==
    proc = "idle" =>
        /\ opened = {"accounts"} \cup Elems(hist["accounts"])
                       \cup UNION {Elems(hist[a]) : a \in AccountIds}
        /\ closed = opened

\* C1 (as claimed): whenever a run has completed, every record inserted as
\* New or Updated, in this run or an earlier one, has had exactly one
\* notification delivered for it.
C1_ExactlyOnce ==
    proc = "idle" => \A c \in CommentIds : totNtf[c] = totIns[c]

\* C2: a triple whose comment id is not in the store is classified New:
\* one insert and no delete, the inserted record is built from account.id,
\* claim.name and the comment's fields, find-by-id returns it, and it is the
\* one record handed on for notification.
C2_NewInserted ==
    [][(Detected /\ last'.fault = "none" /\ store[last'.triple[3]] = NoEntity) =>
         LET t == last'.triple
             rec == Expected(t)
         IN /\ last'.class = "New"
            /\ last'.ops = <<"insert">>
            /\ store' = [store EXCEPT ![t[3]] = rec]
            /\ get_comment_by_id(store', t[3]) = rec
            /\ ins' = Bump(ins, t[3]) /\ del' = del
            /\ pc' = "notify" /\ toSend' = rec]_vars

C2_Witness ==
    /\ last.class = "New" /\ last.fault = "none" /\ last.pre = NoEntity
    /\ pc = "notify"
    /\ toSend = store[last.id]
    /\ toSend.account_id = last.triple[1]
    /\ ins[last.id] = 1 /\ del[last.id] = 0

\* C3: a triple whose comment id is in the store with another text is
\* classified Updated: one delete then one insert of a record with the same
\* id and the new text, and that record is the one handed on for
\* notification.
C3_UpdatedReplaced ==
    [][(/\ Detected /\ last'.fault = "none"
        /\ store[last'.triple[3]] # NoEntity
        /\ store[last'.triple[3]].comment # upText[last'.triple[3]]) =>
         LET t == last'.triple
             rec == Expected(t)
         IN /\ last'.class = "Updated"
            /\ last'.ops = <<"delete", "insert">>
            /\ del' = Bump(del, t[3]) /\ ins' = Bump(ins, t[3])
            /\ store' = [store EXCEPT ![t[3]] = rec]
            /\ rec.id = store[t[3]].id /\ rec.comment = upText[t[3]]
            /\ pc' = "notify" /\ toSend' = rec]_vars

C3_Witness ==
    /\ last.class = "Updated" /\ last.fault = "none"
    /\ last.pre.comment = "t1" /\ store[last.id].comment = "t2"
    /\ last.ops = <<"delete", "insert">>
    /\ pc = "notify" /\ toSend = store[last.id]

\* C4: a triple whose comment id is in the store with the same text is
\* classified Unchanged, whatever its other fields: the store and the
\* counts of inserts, deletes and deliveries stay as they are and nothing is
\* handed on for notification.
C4_UnchangedFrame ==
    [][(/\ Detected
        /\ store[last'.triple[3]] # NoEntity
        /\ store[last'.triple[3]].comment = upText[last'.triple[3]]) =>
         /\ last'.class = "Unchanged"
         /\ last'.ops = <<>>
         /\ store' = store
         /\ ins' = ins /\ del' = del /\ ntf' = ntf
         /\ pc' = "poll" /\ toSend' = NoEntity
         /\ proc' = proc]_vars

C4_Witness ==
    /\ last.class = "Unchanged"
    /\ last.pre.is_hidden # upHidden[last.id]
    /\ store[last.id] = last.pre
    /\ pc = "poll"

\* The comments whose text differs between the run before and this run.
TextDiff == {c \in CommentIds : runText[c] # prev.text[c]}

Untouched(c) == ins[c] = 0 /\ del[c] = 0 /\ ntf[c] = 0

\* C5: after a run that completed with every fetch succeeding, a run over
\* the same texts inserts, deletes and notifies nothing; a run over texts
\* that differ in one comment touches no other comment, and replaces and
\* notifies that comment once when it completes with every fetch succeeding.
C5_Idempotent ==
    prev.clean =>
        /\ TextDiff = {} => \A c \in CommentIds : Untouched(c)
        /\ Cardinality(TextDiff) = 1 =>
             /\ \A c \in CommentIds \ TextDiff : Untouched(c)
             /\ \A c \in TextDiff :
                  /\ ins[c] <= 1 /\ del[c] <= 1 /\ ntf[c] <= 1
                  /\ (proc = "idle" /\ failed = {}) =>
                        ins[c] = 1 /\ del[c] = 1 /\ ntf[c] = 1

C5_Witness ==
    /\ prev.clean /\ proc = "idle" /\ failed = {}
    /\ TextDiff = {"c2"}
    /\ ins["c2"] = 1 /\ del["c2"] = 1 /\ ntf["c2"] = 1
    /\ \A c \in CommentIds \ {"c2"} : Untouched(c)

\* C6 (as claimed): a comment id that was in the store when the run began
\* is in the store in every state of the run, a crashed one included.
C6_NeverAbsent ==
    \A c \in CommentIds : runStore[c] # NoEntity => store[c] # NoEntity

\* C7: a stream none of whose fetches failed has, when it ends, emitted
\* every item of its pages 1..total_pages once and nothing else, and at no
\* time an item more often than its pages hold it.
C7_Complete ==
    \A key \in StreamKeys :
        FailedPages(key) = {} =>
            \A x \in ItemsOf(key) :
                /\ Count(hist[key], x) <= PageCount(key, AllPages(key), x)
                /\ key \in closed =>
                     Count(hist[key], x) = PageCount(key, AllPages(key), x)

C7_Witness ==
    /\ "k1" \in closed /\ failed = {}
    /\ TotalPages(ResultSet("k1")) = 3
    /\ hist["k1"] = <<"c1", "c3", "c2">>
    /\ "k3" \in closed /\ TotalPages(ResultSet("k3")) = 0 /\ hist["k3"] = <<>>

\* C8: when the fetch of a page k >= 2 of a stream fails, the stream still
\* ends having emitted the items of its other pages and none of page k,
\* every other stream that ends has emitted all its items, a completed run
\* has opened and ended the stream of every emitted account and claim, and
\* a panic is never caused by the fetch.
C8_FaultIsolated ==
    \A key \in StreamKeys :
        (FailedPages(key) # {} /\ 1 \notin FailedPages(key)) =>
            /\ key \in closed =>
                 \A x \in ItemsOf(key) :
                    Count(hist[key], x) = PageCount(key, SeenPages(key), x)
            /\ \A other \in closed \ {key} :
                 FailedPages(other) = {} =>
                    \A x \in ItemsOf(other) :
                       Count(hist[other], x) = PageCount(other, AllPages(other), x)
            /\ BranchesDone
            /\ FatalCause

C8_Witness ==
    /\ failed = {<<"k1", 2>>} /\ TotalPages(ResultSet("k1")) = 3
    /\ proc = "idle"
    /\ hist["k1"] = <<"c1", "c3">>
    /\ closed = StreamKeys
    /\ hist["k2"] = <<"c4">> /\ hist["a2"] = <<"k2", "k3">>

\* C9: when the fetch of page 1 of a stream fails, the stream emits no
\* item, requests no other page, holds nothing more to emit, has ended when
\* the run has completed, and the failure causes no panic.
C9_FirstPageAbsorbed ==
    \A key \in StreamKeys :
        1 \in FailedPages(key) =>
            /\ hist[key] = <<>>
            /\ \A page \in 1..(Len(ResultSet(key)) + 1) : <<key, page>> \in reqs => page = 1
            /\ StreamOf(key).out = {} /\ StreamOf(key).cur = <<>> /\ StreamOf(key).tp = 0
            /\ proc = "idle" => key \in closed
            /\ FatalCause

C9_Witness ==
    /\ failed = {<<"k1", 1>>}
    /\ "k1" \in closed /\ hist["k1"] = <<>>
    /\ proc = "idle"
    /\ hist["k2"] = <<"c4">>

\* C10 (as claimed): at every moment at most ncpu claim-list requests and at
\* most ncpu comment-list requests are outstanding.
C10_RequestBound ==
    /\ Cardinality(claimS.out) <= ncpu
    /\ Cardinality(commS.out) <= ncpu

\* The streams that were opened for an item of `keys` and have not ended.
InFlight(keys) == (opened \ closed) \cap keys

\* C11: at every moment at most ncpu claim streams and at most ncpu comment
\* streams are opened and not yet exhausted.
C11_ExpansionBound ==
    /\ Cardinality(InFlight(AccountIds)) <= ncpu
    /\ Cardinality(InFlight(ClaimIds)) <= ncpu

C11_Witness ==
    /\ proc = "running" /\ ncpu = 1
    /\ InFlight(AccountIds) = {"a2"} /\ {"a1", "k1"} \subseteq closed
    /\ InFlight(ClaimIds) = {"k2"} /\ commS.ph = "first"
    /\ hist["a2"] = <<"k2">>

\* C12: a send is in progress exactly while the mailer lock is held, a
\* notification is delivered only by a step that starts with the lock held,
\* and while the lock is held no other record is classified or handed on
\* for sending: at most one send is in progress at any time.
C12_SendSerialized ==
    [][/\ (pc' = "sending") = mailerLock'
       /\ mailerLock' => toSend' # NoEntity
       /\ ntf' # ntf => (mailerLock /\ pc = "sending" /\ ntf' = Bump(ntf, toSend.id))
       /\ mailerLock => (~Detected /\ (mailerLock' => toSend' = toSend))]_vars

C12_Witness ==
    /\ pc = "sending" /\ mailerLock
    /\ toSend.id = "c1"
    /\ buf2 # {} /\ ncpu = 2
    /\ commS.arr # {}

\* No stream, buffered item, pending record or held lock of a run exists.
AtRest ==
    /\ acctS = NoStream /\ claimS = NoStream /\ commS = NoStream
    /\ buf1 = {} /\ buf2 = {}
    /\ pc = "poll" /\ toSend = NoEntity /\ ~mailerLock

\* C13: a run, the start-up run or a scheduled one, begins only when no
\* run is in progress: the one before has returned or the program has just
\* started, and nothing of an earlier run is left in flight.
C13_NoOverlap ==
    [][runs' # runs =>
         /\ proc \in {"start", "idle"} /\ proc' = "running"
         /\ AtRest
         /\ runs' = runs + 1]_vars

C13_Witness ==
    /\ runs = 2 /\ proc = "running"
    /\ prev.clean
    /\ acctS.ph = "first" /\ buf2 = {}
    /\ \A c \in CommentIds : store[c] # NoEntity

\* C14 (as claimed): after a fatal error has ended a run, the scheduler's
\* next trigger can start a run.
C14_NextTrigger ==
    (proc = "crashed" /\ runs < MaxRuns) => ENABLED ScheduledRun

\* The account stream has ended, a stream was opened for every account and
\* every claim that was emitted, each of them has ended having emitted the
\* items of every page whose fetch succeeded, and nothing is left in the
\* first buffer or outstanding.
Exhausted ==
    /\ "accounts" \in closed
    /\ opened = {"accounts"} \cup Elems(hist["accounts"])
                   \cup UNION {Elems(hist[a]) : a \in AccountIds}
    /\ closed = opened
    /\ acctS = NoStream /\ claimS = NoStream /\ commS = NoStream /\ buf1 = {}
    /\ \A key \in closed : \A x \in ItemsOf(key) :
          Count(hist[key], x) = PageCount(key, SeenPages(key), x)

\* C15: when every issued fetch is answered, a run reaches the end of the
\* stream of triples (the second flatten has ended and the last buffer is
\* empty) unless a fatal error has ended the run first; and the second
\* flatten ends only when the account stream and every opened claim and
\* comment stream are exhausted, each having emitted all it fetched.
C15_Terminates ==
    /\ [](flat2Done => Exhausted)
    /\ (proc = "running") ~> ((flat2Done /\ buf2 = {}) \/ proc = "crashed")

C15_Witness ==
    /\ flat2Done /\ buf2 = {} /\ proc = "running" /\ pc = "poll"
    /\ closed = StreamKeys
    /\ failed = {<<"a2", 1>>} \/ failed = {}
    /\ hist["k1"] = <<"c1", "c2", "c3">>

\* The triples of the remote hierarchy: each comment of each claim of each
\* account.
AllTriples ==
    {t \in AccountIds \X ClaimIds \X CommentIds :
        t[2] \in Elems(ClaimList(t[1])) /\ t[3] \in Elems(CommentsOf(t[2]))}

\* C16: every emitted triple has its claim among the items the claim stream
\* of its account emitted and its comment among the items the comment stream
\* of its claim emitted; and when the fan-out has ended with every fetch
\* succeeded, the emitted triples are the comments of the claims of the
\* accounts, each emitted once.
C16_Pairing ==
    /\ buf2 \subseteq emitted
    /\ \A t \in emitted :
          /\ t[1] \in Elems(hist["accounts"])
          /\ t[2] \in Elems(hist[t[1]])
          /\ t[3] \in Elems(hist[t[2]])
          /\ t \in AllTriples
    /\ (flat2Done /\ failed = {}) =>
          /\ emitted = AllTriples
          /\ \A t \in AllTriples :
                Count(hist[t[2]], t[3]) = 1 /\ Count(hist[t[1]], t[2]) = 1

C16_Witness ==
    /\ flat2Done /\ failed = {} /\ proc = "running"
    /\ emitted = AllTriples
    /\ <<"a2", "k2", "c4">> \in buf2 /\ last.triple[1] = "a1"
    /\ hist["accounts"] = <<"a1", "a2">>

\* The position of item x in the result set of `key`, and the page the
\* remote endpoint serves it on.
PosOf(key, x) == CHOOSE i \in 1..Len(ResultSet(key)) : ResultSet(key)[i] = x
PageOf(key, x) == ((PosOf(key, x) - 1) \div pageSize) + 1

\* C17: in what a stream has emitted, no item of a later page precedes an
\* item of page 1, and two items of the same page stand in the order they
\* have in that page.  (Pages 2 and later come in the order their fetches
\* complete: see the witness.)
C17_Ordering ==
    \A key \in StreamKeys :
        \A i, j \in 1..Len(hist[key]) :
            i < j =>
                LET x == hist[key][i]
                    y == hist[key][j]
                IN /\ PageOf(key, y) = 1 => PageOf(key, x) = 1
                   /\ PageOf(key, x) = PageOf(key, y) => PosOf(key, x) < PosOf(key, y)

C17_Witness ==
    /\ pageSize = 1 /\ proc = "idle" /\ failed = {}
    /\ hist["k1"] = <<"c1", "c3", "c2">>
    /\ hist["a2"] = <<"k2", "k3">>
    /\ PageOf("k1", "c3") = 3 /\ PageOf("k1", "c2") = 2

\* C18: when the ChangeDetector has handled a triple without a failure, the
\* store holds a record under the comment's id whose text is the comment's
\* text; a record is inserted only while the store holds none with its id
\* (none was found, or the one found was deleted in the same step), so the
\* store never holds two records with one id, and every record is filed
\* under its own id.
C18_LatestText ==
    [][(Detected /\ last'.fault = "none") =>
         LET id == last'.triple[3] IN
         /\ store'[id] # NoEntity
         /\ store'[id].id = id
         /\ store'[id].comment = upText[id]
         /\ get_comment_by_id(store', id).comment = Comment(id).comment
         /\ ins' # ins => (store[id] = NoEntity \/ del' = Bump(del, id))
         /\ ins'[id] - del'[id] <= 1
         /\ \A c \in CommentIds : store'[c] # NoEntity => store'[c].id = c]_vars

C18_Witness ==
    /\ last.class = "Updated" /\ last.fault = "none"
    /\ proc = "idle" /\ ntf[last.id] = 1
    /\ last.pre.comment = "t1" /\ upText[last.id] = "t2"
    /\ store[last.id].comment = "t2"
    /\ \A c \in CommentIds \ {last.id} : store[c].comment = "t1"

\* C19: when a run has completed, every comment id the store held when the
\* run began is still in the store, whether its comment was fetched again,
\* replaced, or not seen in this run because the fetch of its page failed.
C19_NeverDropped ==
    proc = "idle" =>
        \A c \in CommentIds : runStore[c] # NoEntity => store[c] # NoEntity

C19_Witness ==
    /\ proc = "idle" /\ runs = 2
    /\ failed = {<<"k2", 1>>}
    /\ \A c \in CommentIds : runStore[c] # NoEntity
    /\ del["c2"] = 1 /\ ins["c2"] = 1 /\ store["c2"] # runStore["c2"]
    /\ ins["c4"] = 0 /\ store["c4"] = runStore["c4"]

\* C20: a failed insert, delete or send ends the run in the step that
\* fails, with every stream, buffered triple and pending record dropped;
\* and from then until another run begins no triple is classified, the
\* store is not changed and no notification is delivered.
C20_Fatal ==
    [][/\ (last'.fault # "none" /\ last' # last) =>
            /\ proc = "running" /\ proc' = "crashed"
            /\ AtRest'
            /\ ntf' = ntf /\ ins' = ins
       /\ (last.fault # "none" /\ runs' = runs) =>
            /\ proc \in {"crashed", "start"} /\ proc' \in {"crashed", "start"}
            /\ AtRest /\ AtRest'
            /\ last' = last /\ store' = store
            /\ ntf' = ntf /\ ins' = ins /\ del' = del]_vars

C20_Witness ==
    /\ proc = "start" /\ runs = 1
    /\ last.fault = "send" /\ last.id = "c1"
    /\ ntf = Zero /\ ins = Bump(Zero, "c1")
    /\ emitted = {<<"a1", "k1", "c1">>, <<"a1", "k1", "c2">>}
    /\ buf2 = {}

\* C21: the ChangeDetector handles a triple in one piece: it starts with no
\* record of an earlier triple pending, classifies by the record the store
\* holds for the comment's id at that moment, and changes the store under
\* that id only; so of two triples with one comment id in a run the later
\* one finds what the earlier one stored, and a triple is classified New
\* only if no insert of its id was made in the run.
C21_SingleWriter ==
    [][Detected =>
         LET id == last'.triple[3] IN
         /\ pc = "poll" /\ toSend = NoEntity /\ ~mailerLock
         /\ last'.pre = store[id]
         /\ last'.class = Classification(store[id], Comment(id))
         /\ \A c \in CommentIds \ {id} : store'[c] = store[c]
         /\ last'.class = "New" => (ins[id] = 0 /\ store[id] = NoEntity)]_vars

C21_Witness ==
    /\ relisted /\ runs = 1
    /\ last.triple = <<"a1", "k1", "c1">> /\ last.class = "Unchanged"
    /\ store["c1"].account_id = "a2"
    /\ ins["c1"] = 1 /\ ntf["c1"] = 1

\* C22: a notification is delivered only for a record that is in the
\* store; when a triple is classified, every record inserted earlier in the
\* run has had its notification delivered; and so has every inserted
\* record when a failed insert or delete ends the run.
C22_PersistThenNotify ==
    [][/\ (ntf' # ntf /\ runs' = runs) =>
            /\ toSend # NoEntity /\ store[toSend.id] = toSend
            /\ ins[toSend.id] = ntf[toSend.id] + 1
       /\ Detected => \A c \in CommentIds : ntf[c] = ins[c]
       /\ last'.fault \in {"insert", "delete"} => \A c \in CommentIds : ntf'[c] = ins'[c]
       /\ \A c \in CommentIds : ntf'[c] <= ins'[c]]_vars

C22_Witness ==
    /\ proc = "crashed" /\ last.fault = "delete" /\ last.id = "c2"
    /\ store["c2"] = last.pre
    /\ runs = 2 /\ ins["c4"] = 1 /\ ntf["c4"] = 1
    /\ \A c \in CommentIds : ntf[c] = ins[c]

====
